---- MODULE Spec2Model ----
(***************************************************************************)
(* Model of core/storage/gcp/gcp.go: WrapHTTPTransport.RoundTrip ("Send"), *)
(* the atomic token cell it shares between concurrent calls, the           *)
(* credential source and the delegate transport it calls.                  *)
(*                                                                         *)
(* Time is counted in whole seconds.  Every RoundTrip call is a process;   *)
(* calls are numbered in the order in which they start.                    *)
(***************************************************************************)
EXTENDS Integers, Sequences, FiniteSets, TLC

\* ------------------------------------------------------------------ bounds
NumSends == 2
MaxTime == 1

\* --------------------------------------------------------------- constants
xAmzPrefix == "X-Amz-"
xGoogPrefix == "X-Goog-"
\* "Valid() means the token won't be expired in 10 sec"
ExpiryDelta == 10

Procs == 1..NumSends

\* nil *oauth2.Token: the zero value of atomic.Pointer before the first Store
Nil == [nil |-> TRUE]

\* The tokens the credential source hands out.  The source bound at
\* construction always fills in a non-empty access token and an expiry; it
\* makes no promise about how long the token still lives.  Each Token() call
\* answers with an access-token string of its own (named after the calling
\* Send) and a lifetime, in seconds from the moment of issue.
AccessTokenFor(p) == "tok" \o ToString(p)

Lifetimes == {-1, 10, 11}

IssuedAt(p, t) == {[AccessToken |-> AccessTokenFor(p), Expiry |-> t + l] : l \in Lifetimes}

\* err != nil from tokenSrc.Token()
SourceError == [err |-> "token"]

\* What the delegate transport can answer
BackendResults == {"response", "errBackend"}

\* ----------------------------------------------------------------- strings
\* strings.HasPrefix
HasPrefix(s, prefix) ==
    Len(s) >= Len(prefix) /\ SubSeq(s, 1, Len(prefix)) = prefix

\* indices at which old occurs in s
Occurrences(s, old) ==
    {i \in 1..(Len(s) - Len(old) + 1) : SubSeq(s, i, i + Len(old) - 1) = old}

Min(S) == CHOOSE x \in S : \A y \in S : x <= y

ReplaceAt(s, i, old, new) ==
    SubSeq(s, 1, i - 1) \o new \o SubSeq(s, i + Len(old), Len(s))

\* strings.Replace with n = -1: every occurrence
RECURSIVE ReplaceEvery(_, _, _)
ReplaceEvery(s, old, new) ==
    IF Occurrences(s, old) = {} THEN s
    ELSE SubSeq(s, 1, Min(Occurrences(s, old)) - 1) \o new
         \o ReplaceEvery(SubSeq(s, Min(Occurrences(s, old)) + Len(old), Len(s)), old, new)

\* strings.Replace(s, old, new, 1): the first occurrence only
ReplaceFirst(s, old, new) ==
    IF Occurrences(s, old) = {} THEN s
    ELSE ReplaceAt(s, Min(Occurrences(s, old)), old, new)

\* ----------------------------------------------------------------- headers
\* http.Header is map[string][]string: a function from names to value lists
MapPut(h, k, v) == [x \in (DOMAIN h) \cup {k} |-> IF x = k THEN v ELSE h[x]]

MapDelete(h, k) == [x \in (DOMAIN h) \ {k} |-> h[x]]

\* the loop body without its if: every key is put back and deleted
RenameStepNoGuard(h, k) ==
    IF k \in DOMAIN h
    THEN MapDelete(MapPut(h, ReplaceFirst(k, xAmzPrefix, xGoogPrefix), h[k]), k)
    ELSE h

\* the body of the range loop for one key k
RenameStep(h, k) ==
    IF k \in DOMAIN h /\ HasPrefix(k, xAmzPrefix)
    THEN MapDelete(MapPut(h, ReplaceFirst(k, xAmzPrefix, xGoogPrefix), h[k]), k)
    ELSE h

\* the range loop, visiting the keys in the given order
RECURSIVE RenameLoop(_, _)
RenameLoop(h, order) ==
    IF order = <<>> THEN h
    ELSE RenameLoop(RenameStep(h, Head(order)), Tail(order))

\* Go ranges over a map in an unspecified order: every order of the keys
Orders(S) ==
    {o \in [1..Cardinality(S) -> S] : \A i, j \in 1..Cardinality(S) : i # j => o[i] # o[j]}

Bearer(t) == "Bearer " \o t.AccessToken

\* Header.Add in place of Header.Set: the value is appended to what is there
SetAuthorizationAdds(h, v) ==
    MapPut(h, "Authorization",
           (IF "Authorization" \in DOMAIN h THEN h["Authorization"] ELSE << >>) \o <<v>>)

\* req.Header.Set("Authorization", v): one value, replacing what was there
SetAuthorization(h, v) == MapPut(h, "Authorization", <<v>>)

\* ------------------------------------------------------------------ tokens
\* the expiry test off by one: a token with exactly the margin left is expired
ExpiredInclusive(t, at) == t.Expiry - ExpiryDelta <= at

\* the comparison of the expiry test the wrong way round
ExpiredSwapped(t, at) == at < t.Expiry - ExpiryDelta

\* oauth2.Token.Valid as RoundTrip uses it: the token is present, its access
\* token is non-empty and it "won't be expired in 10 sec": it counts as expired
\* when its expiry less ExpiryDelta lies before the time at, so that a token
\* with exactly ExpiryDelta seconds left is still valid.  Every token of the
\* model carries an expiry.
Expired(t, at) == t.Expiry - ExpiryDelta < at

Valid(t, at) == t # Nil /\ t.AccessToken # "" /\ ~Expired(t, at)

\* ------------------------------------------------------------------- state
VARIABLES
    now,            \* the wall clock
    currentToken,   \* t.currentToken, the atomic cell
    pc,             \* where each call is
    req,            \* each call's req.Header
    cur,            \* each call's local currentToken
    newToken,       \* each call's local newToken
    result,         \* what each call returned
    orig,           \* the headers each call was entered with
    srcLog,         \* per call, what tokenSrc.Token() answered, in order
    storeLog,       \* per call, the tokens it stored into the cell, in order
    backend,        \* per call, the requests the delegate transport received
    reqRest,        \* each call's req.URL and req.Body
    origRest,       \* the URL and body each call was entered with
    lastIssued,     \* the token tokenSrc.Token() returned last
    fac             \* the NewMinioClient call

vars == <<now, currentToken, pc, req, cur, newToken, result, orig, srcLog, storeLog, backend,
          reqRest, origRest, lastIssued, fac>>

NoHeader == << >>

\* req.URL and req.Body before the call is made
NoRest == [url |-> "", body |-> ""]

\* NewMinioClient not called yet
NoCall == [pc |-> "idle"]

InitState ==
    /\ now = 0
    /\ currentToken = Nil
    /\ pc = [p \in Procs |-> "idle"]
    /\ req = [p \in Procs |-> NoHeader]
    /\ cur = [p \in Procs |-> Nil]
    /\ newToken = [p \in Procs |-> Nil]
    /\ result = [p \in Procs |-> "pending"]
    /\ orig = [p \in Procs |-> NoHeader]
    /\ srcLog = [p \in Procs |-> << >>]
    /\ storeLog = [p \in Procs |-> << >>]
    /\ backend = [p \in Procs |-> << >>]
    /\ reqRest = [p \in Procs |-> NoRest]
    /\ origRest = [p \in Procs |-> NoRest]
    /\ lastIssued = Nil
    /\ fac = NoCall

\* ----------------------------------------------------------------- actions
\* The clock advances
Tick ==
    /\ now < MaxTime
    /\ now' = now + 1
    /\ UNCHANGED <<currentToken, pc, req, cur, newToken, result, orig, srcLog, storeLog, backend, reqRest, origRest, lastIssued, fac>>

\* RoundTrip is entered with headers h and renames the X-Amz- headers
Translate(p, h, order, rest) ==
    /\ pc[p] = "idle"
    /\ orig' = [orig EXCEPT ![p] = h]
    /\ origRest' = [origRest EXCEPT ![p] = rest]
    /\ req' = [req EXCEPT ![p] = RenameLoop(h, order)]
    /\ reqRest' = [reqRest EXCEPT ![p] = rest]
    /\ pc' = [pc EXCEPT ![p] = "load"]
    /\ UNCHANGED <<now, currentToken, cur, newToken, result, srcLog, storeLog, backend, lastIssued, fac>>

\* the cell is read but the token is always fetched anew
LoadIgnoresCache(p) ==
    /\ pc[p] = "load"
    /\ cur' = [cur EXCEPT ![p] = currentToken]
    /\ pc' = [pc EXCEPT ![p] = "fetch"]
    /\ UNCHANGED <<now, currentToken, req, newToken, result, orig, srcLog, storeLog, backend, reqRest, origRest, fac>>

\* the cached token used whenever there is one, its expiry not looked at
LoadNoExpiryTest(p) ==
    /\ pc[p] = "load"
    /\ cur' = [cur EXCEPT ![p] = currentToken]
    /\ IF currentToken # Nil
       THEN /\ req' = [req EXCEPT ![p] = SetAuthorization(req[p], Bearer(currentToken))]
            /\ pc' = [pc EXCEPT ![p] = "delegate"]
       ELSE /\ req' = req
            /\ pc' = [pc EXCEPT ![p] = "fetch"]
    /\ UNCHANGED <<now, currentToken, newToken, result, orig, srcLog, storeLog, backend, reqRest, origRest, fac>>

\* a load that waits while another call is refreshing the token
LoadWaitsForFetch(p) ==
    /\ pc[p] = "load"
    /\ \A q \in Procs \ {p} : pc[q] \notin {"fetch", "store"}
    /\ cur' = [cur EXCEPT ![p] = currentToken]
    /\ IF Valid(currentToken, now)
       THEN /\ req' = [req EXCEPT ![p] = SetAuthorization(req[p], Bearer(currentToken))]
            /\ pc' = [pc EXCEPT ![p] = "delegate"]
       ELSE /\ req' = req
            /\ pc' = [pc EXCEPT ![p] = "fetch"]
    /\ UNCHANGED <<now, currentToken, newToken, result, orig, srcLog, storeLog, backend, reqRest, origRest, fac>>

\* currentToken := t.currentToken.Load(); if currentToken.Valid() { Set }
\* Valid() reads the clock right after the load: one step, at one time
Load(p) ==
    /\ pc[p] = "load"
    /\ cur' = [cur EXCEPT ![p] = currentToken]
    /\ IF Valid(currentToken, now)
       THEN /\ req' = [req EXCEPT ![p] = SetAuthorization(req[p], Bearer(currentToken))]
            /\ pc' = [pc EXCEPT ![p] = "delegate"]
       ELSE /\ req' = req
            /\ pc' = [pc EXCEPT ![p] = "fetch"]
    /\ UNCHANGED <<now, currentToken, newToken, result, orig, srcLog, storeLog, backend, reqRest, origRest, fac>>

\* a failed Token() call that empties the cache
FetchFailClearsCache(p) ==
    /\ pc[p] = "fetch"
    /\ srcLog' = [srcLog EXCEPT ![p] = Append(@, SourceError)]
    /\ result' = [result EXCEPT ![p] = "errToken"]
    /\ pc' = [pc EXCEPT ![p] = "done"]
    /\ currentToken' = Nil
    /\ UNCHANGED <<now, req, cur, newToken, orig, storeLog, backend, reqRest, origRest, fac>>

\* a failed Token() call that is tried once more
FetchFailRetries(p) ==
    /\ pc[p] = "fetch"
    /\ srcLog' = [srcLog EXCEPT ![p] = Append(@, SourceError)]
    /\ result' = [result EXCEPT ![p] = IF srcLog[p] = << >> THEN @ ELSE "errToken"]
    /\ pc' = [pc EXCEPT ![p] = IF srcLog[p] = << >> THEN "fetch" ELSE "done"]
    /\ UNCHANGED <<now, currentToken, req, cur, newToken, orig, storeLog, backend, reqRest, origRest, fac>>

\* the error branch without its return: the call carries on to the delegate
FetchFailCarriesOn(p) ==
    /\ pc[p] = "fetch"
    /\ srcLog' = [srcLog EXCEPT ![p] = Append(@, SourceError)]
    /\ pc' = [pc EXCEPT ![p] = "delegate"]
    /\ UNCHANGED <<now, currentToken, req, cur, newToken, result, orig, storeLog, backend, reqRest, origRest, fac>>

\* newToken, err := t.tokenSrc.Token() with err != nil
FetchFail(p) ==
    /\ pc[p] = "fetch"
    /\ srcLog' = [srcLog EXCEPT ![p] = Append(@, SourceError)]
    /\ result' = [result EXCEPT ![p] = "errToken"]
    /\ pc' = [pc EXCEPT ![p] = "done"]
    /\ UNCHANGED <<now, currentToken, req, cur, newToken, orig, storeLog, backend, reqRest, origRest, fac>>

\* the success branch without the Store
FetchOkNoStore(p, t) ==
    /\ pc[p] = "fetch"
    /\ srcLog' = [srcLog EXCEPT ![p] = Append(@, t)]
    /\ newToken' = [newToken EXCEPT ![p] = t]
    /\ req' = [req EXCEPT ![p] = SetAuthorization(req[p], Bearer(t))]
    /\ pc' = [pc EXCEPT ![p] = "delegate"]
    /\ UNCHANGED <<now, currentToken, cur, result, orig, storeLog, backend, reqRest, origRest, fac>>

\* newToken, err := t.tokenSrc.Token() with err == nil, then Header.Set
FetchOk(p, t) ==
    /\ pc[p] = "fetch"
    /\ srcLog' = [srcLog EXCEPT ![p] = Append(@, t)]
    /\ newToken' = [newToken EXCEPT ![p] = t]
    /\ req' = [req EXCEPT ![p] = SetAuthorization(req[p], Bearer(t))]
    /\ pc' = [pc EXCEPT ![p] = "store"]
    /\ UNCHANGED <<now, currentToken, cur, result, orig, storeLog, backend, reqRest, origRest, fac>>

\* the wrong local stored: the token loaded, not the token fetched
StoreLoaded(p) ==
    /\ pc[p] = "store"
    /\ currentToken' = cur[p]
    /\ pc' = [pc EXCEPT ![p] = "delegate"]
    /\ storeLog' = [storeLog EXCEPT ![p] = Append(@, cur[p])]
    /\ UNCHANGED <<now, req, cur, newToken, result, orig, srcLog, backend, reqRest, origRest, fac>>

\* a Store that leaves the cell as it is
StoreSkipped(p) ==
    /\ pc[p] = "store"
    /\ currentToken' = currentToken
    /\ pc' = [pc EXCEPT ![p] = "delegate"]
    /\ storeLog' = [storeLog EXCEPT ![p] = Append(@, newToken[p])]
    /\ UNCHANGED <<now, req, cur, newToken, result, orig, srcLog, backend, reqRest, origRest, fac>>

\* a cell that keeps the token it already holds
StoreFirstWins(p) ==
    /\ pc[p] = "store"
    /\ currentToken' = IF currentToken = Nil THEN newToken[p] ELSE currentToken
    /\ pc' = [pc EXCEPT ![p] = "delegate"]
    /\ storeLog' = [storeLog EXCEPT ![p] = Append(@, newToken[p])]
    /\ UNCHANGED <<now, req, cur, newToken, result, orig, srcLog, backend, reqRest, origRest, fac>>

\* t.currentToken.Store(newToken)
Store(p) ==
    /\ pc[p] = "store"
    /\ currentToken' = newToken[p]
    /\ pc' = [pc EXCEPT ![p] = "delegate"]
    /\ storeLog' = [storeLog EXCEPT ![p] = Append(@, newToken[p])]
    /\ UNCHANGED <<now, req, cur, newToken, result, orig, srcLog, backend, reqRest, origRest, fac>>

\* the token whose access-token string this call put on the request
Used(p) == IF newToken[p] # Nil THEN newToken[p] ELSE cur[p]

\* the token is past its expiry at the time at
PastExpiry(t, at) == t = Nil \/ t.Expiry < at

\* a delegate that is asked again when it answered with an error
DelegateRetries(p, r) ==
    /\ pc[p] = "delegate"
    /\ backend' = [backend EXCEPT ![p] =
                     Append(@, [hdr |-> req[p],
                                url |-> reqRest[p].url,
                                body |-> reqRest[p].body,
                                ans |-> r,
                                valid |-> Valid(Used(p), now),
                                expired |-> PastExpiry(Used(p), now)])]
    /\ result' = [result EXCEPT ![p] = r]
    /\ pc' = [pc EXCEPT ![p] = IF r = "errBackend" /\ backend[p] = << >>
                               THEN "delegate" ELSE "done"]
    /\ UNCHANGED <<now, currentToken, req, cur, newToken, orig, srcLog, storeLog, reqRest, origRest, fac>>

\* return t.backend.RoundTrip(req)
Delegate(p, r) ==
    /\ pc[p] = "delegate"
    /\ backend' = [backend EXCEPT ![p] =
                     Append(@, [hdr |-> req[p],
                                url |-> reqRest[p].url,
                                body |-> reqRest[p].body,
                                ans |-> r,
                                valid |-> Valid(Used(p), now),
                                expired |-> PastExpiry(Used(p), now)])]
    /\ result' = [result EXCEPT ![p] = r]
    /\ pc' = [pc EXCEPT ![p] = "done"]
    /\ UNCHANGED <<now, currentToken, req, cur, newToken, orig, srcLog, storeLog, reqRest, origRest, fac>>

\* One call runs from where it is
Run(p) ==
    \/ Load(p)
    \/ FetchFail(p)
    \/ \E t \in IssuedAt(p, now) : FetchOk(p, t)
    \/ Store(p)
    \/ \E r \in BackendResults : Delegate(p, r)

\* a step of call p; which token the source issued last is not recorded
Step(p) == Run(p) /\ UNCHANGED lastIssued

\* a step of call p, recording the token the source issued last
StepIssued(p) ==
    /\ Run(p)
    /\ lastIssued' = IF newToken'[p] # newToken[p] THEN newToken'[p] ELSE lastIssued

\* ------------------------------------------------------------ request maps
H(names, v) == [k \in names |-> v]

\* the request of a concurrent call: a signed header, a stale Authorization
\* and a header the transport has no business with
ConcHeaders ==
    { H({"X-Amz-Date", "Authorization", "Content-Type"}, <<"v1">>) }

SeqHeaders ==
    ConcHeaders \cup { H({"X-Amz-Date", "X-Goog-Date"}, <<"v2", "v3">>) }

HeaderNames ==
    {"X-Amz-Date", "X-Goog-Date", "X-Amz-X-Amz-Meta", "Content-Type", "Authorization"}

HeaderValues == {<<"v1">>, <<"v2", "v3">>}

AllHeaders == UNION {[S -> HeaderValues] : S \in SUBSET HeaderNames}

\* the target and body of a request
ConcRests == { [url |-> "/bucket/a", body |-> "payload"] }

ReqRests == ConcRests \cup { [url |-> "/bucket/b?uploads", body |-> ""] }

\* ------------------------------------------------------- concurrent calls
\* calls are numbered in the order they enter RoundTrip
Started(p) == \A q \in 1..(p - 1) : pc[q] # "idle"

Init == InitState

Next ==
    \/ Tick
    \/ \E p \in Procs :
         \/ /\ Started(p)
            /\ \E h \in ConcHeaders : \E order \in Orders(DOMAIN h) :
                 \E rest \in ConcRests : Translate(p, h, order, rest)
         \/ Step(p)

Spec == Init /\ [][Next]_vars

\* ------------------------------- concurrent calls under fair scheduling
\* The calls overlap within one second of the clock, so Valid() sees one
\* time throughout; tokens are issued expired, at the margin and beyond it
\* as before, so every branch of RoundTrip is still taken.
NextFair ==
    \E p \in Procs :
        \/ /\ Started(p)
           /\ \E h \in ConcHeaders : \E order \in Orders(DOMAIN h) :
                \E rest \in ConcRests : Translate(p, h, order, rest)
        \/ Step(p)

\* Every goroutine that is inside RoundTrip is scheduled again, and the
\* calls it makes to the credential source and to the delegate return.
FairSpec == Init /\ [][NextFair]_vars /\ \A p \in Procs : WF_vars(Step(p))

\* ------------------------------------------------------- sequential calls
\* a call is made when the one before has returned; the caller passes a new
\* request or the request object of an earlier call again
Returned(p) == \A q \in 1..(p - 1) : pc[q] = "done"

NextSeq ==
    \/ Tick
    \/ \E p \in Procs :
         \/ /\ Returned(p)
            /\ \E h \in SeqHeaders \cup {req[q] : q \in 1..(p - 1)} :
                 \E order \in Orders(DOMAIN h) :
                     \E rest \in ConcRests : Translate(p, h, order, rest)
         \/ Step(p)

SpecSeq == Init /\ [][NextSeq]_vars

\* ------------------------- concurrent calls, the order of issue recorded
NextIssued ==
    \/ Tick
    \/ \E p \in Procs :
         \/ /\ Started(p)
            /\ \E h \in ConcHeaders : \E order \in Orders(DOMAIN h) :
                 \E rest \in ConcRests : Translate(p, h, order, rest)
         \/ StepIssued(p)

SpecIssued == Init /\ [][NextIssued]_vars

\* --------------------------------- one call, every target and body
NextOne ==
    \/ Tick
    \/ \E h \in SeqHeaders : \E order \in Orders(DOMAIN h) :
         \E rest \in ReqRests : Translate(1, h, order, rest)
    \/ Step(1)

SpecOne == Init /\ [][NextOne]_vars

\* ------------------------------------------ one call, every header map
NextHdr ==
    \/ Tick
    \/ \E h \in AllHeaders : \E order \in Orders(DOMAIN h) :
         \E rest \in ConcRests : Translate(1, h, order, rest)
    \/ Step(1)

SpecHdr == Init /\ [][NextHdr]_vars

\* ------------------------------------------------------- NewMinioClient
GcsDefaultAddress == "storage.googleapis.com"

\* &minio.Options{}
ZeroOptions == [Secure |-> FALSE, Creds |-> Nil, Transport |-> Nil]

\* credentials.NewStaticV2("", "", "")
PlaceholderCreds == [AccessKeyID |-> "", SecretAccessKey |-> "", SessionToken |-> ""]

\* errors.Wrap(err, message)
Wrap(err, message) == [msg |-> message, cause |-> err]

\* strings.HasPrefix in the place of strings.Contains
ContainsAtStart(s, sub) == HasPrefix(s, sub)

\* strings.Contains
Contains(s, sub) == Occurrences(s, sub) # {}

\* the credentials branch never taken
UsesCallerCredsNever(opts) == FALSE

\* opts.Creds != nil
UsesCallerCreds(opts) == opts.Creds # Nil

\* NewWrapHTTPTransport(secure): src and tr are what
\* google.DefaultTokenSource and minio.DefaultTransport answer
NewWrapHTTPTransport(secure, src, tr) ==
    IF src = "err"
    THEN [transport |-> Nil,
          err |-> Wrap(Wrap(Nil, "errTokenSource"), "failed to create default token source")]
    ELSE IF tr = "err"
    THEN [transport |-> Nil,
          err |-> Wrap(Wrap(Nil, "errTransport"), "failed to create default transport")]
    ELSE [transport |-> [tokenSrc |-> "defaultTokenSource",
                         backend |-> [secure |-> secure],
                         currentToken |-> Nil],
          err |-> Nil]

\* the transport put into the options whatever the construction answered
WithTransportAnyway(opts, w) ==
    [opts EXCEPT !.Transport = w.transport, !.Creds = PlaceholderCreds]

\* opts.Transport = transport; opts.Creds = credentials.NewStaticV2("", "", ""),
\* reached only when the construction gave no error
WithTransport(opts, w) ==
    IF w.err # Nil THEN opts
    ELSE [opts EXCEPT !.Transport = w.transport, !.Creds = PlaceholderCreds]

\* minio.New(address, opts): made is what the library answers
MinioNew(address, opts, made) ==
    IF made = "client"
    THEN [client |-> [endpoint |-> address, opts |-> opts], err |-> Nil]
    ELSE [client |-> Nil, err |-> Wrap(Nil, "errNew")]

\* the addresses and options NewMinioClient is called with
Addresses ==
    {"", "storage.googleapis.com", "storage.googleapis.com:443",
     "https://storage.googleapis.com/b", "minio.local:9000", "s3.amazonaws.com"}

OptionsGiven ==
    {Nil} \cup [Secure : BOOLEAN,
                Creds : {Nil, [AccessKeyID |-> "key", SecretAccessKey |-> "secret",
                               SessionToken |-> ""]},
                Transport : {Nil, [name |-> "callerTransport"]}]

Outcomes == {"ok", "err"}

MinioOutcomes == {"client", "err"}

\* NewMinioClient(address, opts).  fac keeps what the call was given
\* (inAddress, inOpts), the address and the options object as the call left
\* them, the answer of NewWrapHTTPTransport (wrap, Nil when it was not
\* called), the arguments minio.New received (newArgs, Nil when it was not
\* called) and what the call returned.
NewMinioClient(address, opts, src, tr, made) ==
    /\ fac.pc = "idle"
    /\ LET o1 == IF opts = Nil THEN ZeroOptions ELSE opts
           o2 == IF address = "" THEN [o1 EXCEPT !.Secure = TRUE] ELSE o1
           a1 == IF address = "" THEN GcsDefaultAddress ELSE address
           a2 == IF Contains(a1, GcsDefaultAddress) THEN GcsDefaultAddress ELSE a1
           w  == NewWrapHTTPTransport(o2.Secure, src, tr)
           o3 == WithTransport(o2, w)
       IN  IF UsesCallerCreds(o2)
           THEN fac' = [pc |-> "done", inAddress |-> address, inOpts |-> opts,
                        address |-> a2, opts |-> o2, wrap |-> Nil,
                        newArgs |-> [address |-> a2, opts |-> o2],
                        client |-> MinioNew(a2, o2, made).client,
                        err |-> MinioNew(a2, o2, made).err]
           ELSE IF w.err # Nil
           THEN fac' = [pc |-> "done", inAddress |-> address, inOpts |-> opts,
                        address |-> a2, opts |-> o3, wrap |-> w,
                        newArgs |-> Nil,
                        client |-> Nil,
                        err |-> Wrap(w.err, "failed to create default transport")]
           ELSE fac' = [pc |-> "done", inAddress |-> address, inOpts |-> opts,
                        address |-> a2, opts |-> o3, wrap |-> w,
                        newArgs |-> [address |-> a2, opts |-> o3],
                        client |-> MinioNew(a2, o3, made).client,
                        err |-> MinioNew(a2, o3, made).err]
    /\ UNCHANGED <<now, currentToken, pc, req, cur, newToken, result, orig, srcLog,
                   storeLog, backend, reqRest, origRest, lastIssued>>

NextNew ==
    \E address \in Addresses : \E opts \in OptionsGiven :
        \E src \in Outcomes : \E tr \in Outcomes : \E made \in MinioOutcomes :
            NewMinioClient(address, opts, src, tr, made)

SpecNew == Init /\ [][NextNew]_vars

\* ================================================================ claims
\* the Authorization values of a header map
Auth(h) == IF "Authorization" \in DOMAIN h THEN h["Authorization"] ELSE << >>

\* tokenSrc.Token() answered call p with an error
SourceFailed(p) == \E i \in 1..Len(srcLog[p]) : srcLog[p][i] = SourceError

\* the token call p works with: the one the source gave it, else the one it loaded
TokenOf(p) == IF srcLog[p] # << >> THEN srcLog[p][1] ELSE cur[p]

\* call p leaves the Load step in this transition
Loads(p) == pc[p] = "load" /\ pc'[p] # "load"

\* the delegate transport is invoked by call p in this transition
Delegates(p) == Len(backend'[p]) > Len(backend[p])

\* C1: when Token() returns an error, the call ends with the token error, the
\* delegate transport has not been invoked for it, and the credential source
\* was asked once only.
C1_TokenErrorAborts ==
    \A p \in Procs :
        SourceFailed(p) =>
            /\ pc[p] = "done"
            /\ result[p] = "errToken"
            /\ backend[p] = << >>
            /\ Len(srcLog[p]) = 1

C1_Witness == \E p \in Procs : SourceFailed(p) /\ pc[p] = "done"

\* the token is there and expires more than ExpiryDelta seconds after at
MoreThanMargin(t, at) == t # Nil /\ t.Expiry - at > ExpiryDelta

\* C2: a call that loads a token expiring more than ExpiryDelta seconds from
\* now goes on to the delegate with that token as its bearer, and from the
\* load to its return it never invokes the credential source.
C2_ValidCacheNoFetch ==
    [][\A p \in Procs :
         /\ (Loads(p) /\ MoreThanMargin(currentToken, now)) =>
                /\ pc'[p] = "delegate"
                /\ cur'[p] = currentToken
                /\ Auth(req'[p]) = <<Bearer(currentToken)>>
                /\ srcLog'[p] = << >>
         /\ (pc[p] \in {"delegate", "done"} /\ srcLog[p] = << >>) =>
                (srcLog'[p] = << >> /\ Auth(req'[p]) = Auth(req[p]))]_vars

C2_Witness ==
    \E p \in Procs :
        /\ pc[p] = "done"
        /\ srcLog[p] = << >>
        /\ Len(backend[p]) = 1
        /\ MoreThanMargin(cur[p], now)

\* no token, or one expiring within ExpiryDelta seconds of at, at most
WithinMargin(t, at) == t = Nil \/ t.Expiry - at <= ExpiryDelta

\* no token, or one expiring less than ExpiryDelta seconds after at
InsideMargin(t, at) == t = Nil \/ t.Expiry - at < ExpiryDelta

\* a call that fetches asks the source once, never again, and has stored the
\* token it was given when it invokes the delegate transport
FetchesOnceStoresFirst(p) ==
    /\ (pc[p] = "fetch" /\ pc'[p] # "fetch") => Len(srcLog'[p]) = 1
    /\ pc[p] \in {"store", "delegate", "done"} => srcLog'[p] = srcLog[p]
    /\ (Delegates(p) /\ srcLog[p] # << >>) => storeLog[p] = <<srcLog[p][1]>>

\* C3 as stated: a call that loads an empty cell, or a token expiring within
\* ExpiryDelta seconds (ExpiryDelta itself included), invokes the credential
\* source exactly once and stores the new token before it delegates.
C3_Original ==
    [][\A p \in Procs :
         /\ (Loads(p) /\ WithinMargin(currentToken, now)) =>
                (pc'[p] = "fetch" /\ srcLog'[p] = << >>)
         /\ FetchesOnceStoresFirst(p)]_vars

\* C3 amended: the same for an empty cell or a token with less than
\* ExpiryDelta seconds left.
C3_MissFetchesOnceStoresFirst ==
    [][\A p \in Procs :
         /\ (Loads(p) /\ InsideMargin(currentToken, now)) =>
                (pc'[p] = "fetch" /\ srcLog'[p] = << >>)
         /\ FetchesOnceStoresFirst(p)]_vars

C3_Witness ==
    \E p \in Procs :
        /\ cur[p] # Nil
        /\ Len(srcLog[p]) = 1
        /\ storeLog[p] = <<srcLog[p][1]>>
        /\ Len(backend[p]) = 1

\* C4: every request the delegate transport receives carries exactly one
\* Authorization value, "Bearer " and the access token of the token this call
\* worked with (the one the source gave it, else the one it loaded), whatever
\* the cell holds by then and whatever Authorization the request came with.
C4_BearerOfOwnToken ==
    \A p \in Procs : \A i \in 1..Len(backend[p]) :
        /\ TokenOf(p) # Nil
        /\ Auth(backend[p][i].hdr) = <<"Bearer " \o TokenOf(p).AccessToken>>

C4_Witness ==
    \E p \in Procs :
        /\ Len(backend[p]) = 1
        /\ srcLog[p] # << >>
        /\ currentToken # srcLog[p][1]
        /\ "Authorization" \in DOMAIN orig[p]

\* a header name that starts with the S3 prefix
IsAmz(k) == Len(k) >= 6 /\ SubSeq(k, 1, 6) = "X-Amz-"

\* the name with its leading "X-Amz-" exchanged for "X-Goog-"
GoogName(k) == "X-Goog-" \o SubSeq(k, 7, Len(k))

\* C5: once the headers of a call are translated, no name starts with
\* "X-Amz-", and each original "X-Amz-<rest>" with value list V is found as
\* "X-Goog-<rest>" with value list V.
C5_AmzRenamedToGoog ==
    \A p \in Procs :
        pc[p] # "idle" =>
            /\ \A k \in DOMAIN req[p] : ~IsAmz(k)
            /\ \A k \in DOMAIN orig[p] :
                   IsAmz(k) => /\ GoogName(k) \in DOMAIN req[p]
                               /\ req[p][GoogName(k)] = orig[p][k]

C5_Witness ==
    \E p \in Procs :
        /\ pc[p] # "idle"
        /\ {"X-Amz-X-Amz-Meta", "X-Amz-Date", "X-Goog-Date"} \subseteq DOMAIN orig[p]
        /\ orig[p]["X-Amz-Date"] # orig[p]["X-Goog-Date"]

\* C6 as stated: right after translation every header whose name does not
\* start with "X-Amz-" is there with the value list it came with.
C6_Original ==
    \A p \in Procs :
        pc[p] = "load" =>
            \A k \in DOMAIN orig[p] :
                ~IsAmz(k) => (k \in DOMAIN req[p] /\ req[p][k] = orig[p][k])

\* the names the renamed headers land on
Targets(h) == {GoogName(k) : k \in {j \in DOMAIN h : IsAmz(j)}}

\* C6 amended: right after translation every header whose name neither
\* starts with "X-Amz-" nor is the "X-Goog-<rest>" of an "X-Amz-<rest>" of the
\* same request is there with the value list it came with, and the map holds
\* no name besides these and the renamed ones.
C6_OthersUntouched ==
    \A p \in Procs :
        pc[p] = "load" =>
            /\ \A k \in DOMAIN orig[p] :
                   (~IsAmz(k) /\ k \notin Targets(orig[p])) =>
                       (k \in DOMAIN req[p] /\ req[p][k] = orig[p][k])
            /\ DOMAIN req[p] =
                   {k \in DOMAIN orig[p] : ~IsAmz(k)} \cup Targets(orig[p])

C6_Witness ==
    \E p \in Procs :
        /\ pc[p] = "load"
        /\ {"X-Amz-Date", "X-Goog-Date", "Content-Type"} \subseteq DOMAIN orig[p]
        /\ orig[p]["X-Amz-Date"] # orig[p]["X-Goog-Date"]
        /\ req[p]["X-Goog-Date"] # orig[p]["X-Goog-Date"]

\* C7 as stated: every request the delegate transport receives has its
\* headers translated and a bearer token that is non-empty and valid at that
\* moment; a call that fails has not invoked the delegate transport.
C7_Original ==
    \A p \in Procs :
        /\ \A i \in 1..Len(backend[p]) :
               /\ \A k \in DOMAIN backend[p][i].hdr : ~IsAmz(k)
               /\ TokenOf(p) # Nil
               /\ Auth(backend[p][i].hdr) = <<"Bearer " \o TokenOf(p).AccessToken>>
               /\ TokenOf(p).AccessToken # ""
               /\ backend[p][i].valid
        /\ result[p] = "errToken" => backend[p] = << >>

\* C7 amended: a call takes a cached token only when it is present, non-empty
\* and has at least ExpiryDelta seconds left at the load; the delegate transport
\* is invoked at most once per call, with translated headers and the non-empty
\* bearer of the token loaded so or of the token the credential source just
\* gave this call (whose validity is not looked at); a call whose token
\* acquisition fails never invokes it.
C7_AllOrNothing ==
    [][\A p \in Procs :
         /\ (pc[p] = "load" /\ pc'[p] = "delegate") =>
                /\ currentToken # Nil
                /\ currentToken.AccessToken # ""
                /\ currentToken.Expiry - now >= ExpiryDelta
                /\ cur'[p] = currentToken
         /\ Delegates(p) =>
                /\ Len(backend'[p]) = 1
                /\ ~SourceFailed(p)
                /\ TokenOf(p) # Nil
                /\ TokenOf(p).AccessToken # ""
                /\ \A k \in DOMAIN backend'[p][1].hdr : ~IsAmz(k)
                /\ Auth(backend'[p][1].hdr) = <<"Bearer " \o TokenOf(p).AccessToken>>
         /\ result'[p] = "errToken" => backend'[p] = << >>]_vars

C7_Witness ==
    \E p, q \in Procs :
        /\ Len(backend[p]) = 1 /\ ~backend[p][1].valid
        /\ result[q] = "errToken"

\* tokenSrc.Token() answered call p with a token
FetchedOk(p) == srcLog[p] # << >> /\ srcLog[p][1] # SourceError

\* the tokens the credential source has handed out so far
Acquired == {srcLog[p][1] : p \in {q \in Procs : FetchedOk(q)}}

AllDone == \A p \in Procs : pc[p] = "done"

\* C8 as stated: when all the concurrent calls have returned the cell holds a
\* valid token, and every call that delegated used the cell's token or another
\* token acquired from the credential source, non-empty, valid when it was
\* sent and not past its expiry.
C8_Original ==
    /\ AllDone =>
           (currentToken # Nil /\ currentToken.Expiry - now > ExpiryDelta)
    /\ \A p \in Procs : \A i \in 1..Len(backend[p]) :
           /\ TokenOf(p) \in Acquired
           /\ Auth(backend[p][i].hdr) # << >>
           /\ Auth(backend[p][i].hdr) # <<"Bearer ">>
           /\ ~backend[p][i].expired

\* C8 amended: when all the concurrent calls have returned, the cell is empty
\* exactly if no acquisition succeeded and else holds a token the credential
\* source handed out; every call that delegated sent the non-empty bearer of a
\* token the credential source handed out, to it or to another call.  Nothing
\* is promised about the validity of these tokens.
C8_FinalCacheAcquired ==
    /\ AllDone =>
           /\ currentToken = Nil <=> Acquired = {}
           /\ currentToken # Nil => currentToken \in Acquired
    /\ \A p \in Procs : \A i \in 1..Len(backend[p]) :
           /\ TokenOf(p) \in Acquired
           /\ TokenOf(p).AccessToken # ""
           /\ Auth(backend[p][i].hdr) = <<"Bearer " \o TokenOf(p).AccessToken>>

C8_Witness ==
    /\ AllDone
    /\ currentToken # Nil
    /\ \E p, q \in Procs :
           /\ p # q
           /\ srcLog[p] = << >> /\ Len(backend[p]) = 1
           /\ Len(backend[q]) = 1 /\ ~backend[q][1].valid

\* C9 as stated: a loaded token is reused only when the current time is more
\* than ExpiryDelta seconds before its expiry.
C9_Original ==
    [][\A p \in Procs :
         (pc[p] = "load" /\ pc'[p] = "delegate") =>
             (currentToken # Nil /\ currentToken.Expiry - now > ExpiryDelta)]_vars

\* C9 amended: a loaded token is reused exactly when it is present and the
\* current time is at least ExpiryDelta seconds before its expiry; an absent
\* token and a token with less than ExpiryDelta seconds left are fetched anew.
C9_ReusedIffAtLeastMargin ==
    [][\A p \in Procs :
         Loads(p) =>
             /\ pc'[p] \in {"delegate", "fetch"}
             /\ pc'[p] = "delegate" <=>
                    (currentToken # Nil /\ currentToken.Expiry - now >= ExpiryDelta)]_vars

C9_Witness ==
    \E p \in Procs :
        /\ pc[p] = "delegate"
        /\ srcLog[p] = << >>
        /\ cur[p].Expiry - now = ExpiryDelta

\* C10: of two calls made one after the other on an empty cell, when the
\* token the first call fetched still has ExpiryDelta seconds left at the
\* second call's load, the second call fetches nothing, so that the credential
\* source is invoked once in all; both requests carry the same Authorization;
\* translating translated headers changes nothing; and a second call entered
\* with the headers of the first, as they came or as the first call left
\* them, delivers the very headers the first call delivered.
C10_SecondCallReuses ==
    [][/\ (Loads(2) /\ FetchedOk(1) /\ srcLog[1][1].Expiry - now >= ExpiryDelta) =>
              /\ pc'[2] = "delegate"
              /\ Auth(req'[2]) = <<Bearer(srcLog[1][1])>>
       /\ (pc[2] \in {"delegate", "done"} /\ srcLog[2] = << >>) => srcLog'[2] = << >>
       /\ (Delegates(2) /\ srcLog[2] = << >>) =>
              /\ Len(srcLog[1]) + Len(srcLog'[2]) = 1
              /\ Auth(backend'[2][1].hdr) = Auth(backend[1][1].hdr)
              /\ (orig[2] = orig[1] \/ orig[2] = req[1]) =>
                     backend'[2][1].hdr = backend[1][1].hdr
       /\ \A p \in Procs : \A order \in Orders(DOMAIN req'[p]) :
              RenameLoop(req'[p], order) = req'[p]]_vars

C10_Witness ==
    /\ pc[2] = "done"
    /\ srcLog[2] = << >>
    /\ Len(backend[2]) = 1
    /\ orig[2] = req[1]
    /\ "X-Goog-Date" \in DOMAIN orig[2]

CredsGiven == fac.inOpts # Nil /\ fac.inOpts.Creds # Nil

\* the transport field of the options as the caller passed them
TransportGiven == IF fac.inOpts = Nil THEN Nil ELSE fac.inOpts.Transport

\* the secure flag of the options as the caller passed them
SecureGiven == IF fac.inOpts = Nil THEN FALSE ELSE fac.inOpts.Secure

\* C12: NewMinioClient picks the authentication path by the presence of
\* credentials in the options.  With credentials, no Token-Refreshing
\* Transport is constructed, and the credentials and the transport field
\* reach minio.New as the caller gave them.  Without credentials the
\* transport is constructed, and when the construction succeeds it is the
\* options' transport and the credentials are the empty static placeholder.
C12_AuthPathByCreds ==
    fac.pc = "done" =>
        /\ CredsGiven =>
              /\ fac.wrap = Nil
              /\ fac.opts.Creds = fac.inOpts.Creds
              /\ fac.opts.Transport = fac.inOpts.Transport
              /\ fac.newArgs # Nil
              /\ fac.newArgs.opts.Creds = fac.inOpts.Creds
              /\ fac.newArgs.opts.Transport = fac.inOpts.Transport
        /\ ~CredsGiven =>
              /\ fac.wrap # Nil
              /\ fac.wrap.err = Nil =>
                    /\ fac.wrap.transport # Nil
                    /\ fac.opts.Transport = fac.wrap.transport
                    /\ fac.opts.Creds =
                         [AccessKeyID |-> "", SecretAccessKey |-> "", SessionToken |-> ""]
                    /\ fac.newArgs # Nil
                    /\ fac.newArgs.opts = fac.opts

C12_Witness ==
    /\ fac.pc = "done"
    /\ CredsGiven
    /\ fac.inOpts.Transport # Nil
    /\ fac.client # Nil

\* the address has "storage.googleapis.com" somewhere in it
HoldsDefault(a) ==
    \E i \in 1..Len(a) : \E j \in i..Len(a) : SubSeq(a, i, j) = "storage.googleapis.com"

\* C13: an empty address becomes "storage.googleapis.com" and the secure
\* flag is forced to true; an address with "storage.googleapis.com"
\* anywhere in it becomes exactly that; every other address is kept as it
\* is, with the secure flag as the caller set it.  minio.New, when it is
\* reached, gets the resulting address.
C13_EndpointNormalised ==
    fac.pc = "done" =>
        /\ fac.inAddress = "" =>
              fac.address = "storage.googleapis.com" /\ fac.opts.Secure = TRUE
        /\ HoldsDefault(fac.inAddress) => fac.address = "storage.googleapis.com"
        /\ (fac.inAddress # "" /\ ~HoldsDefault(fac.inAddress)) =>
              fac.address = fac.inAddress /\ fac.opts.Secure = SecureGiven
        /\ fac.newArgs # Nil => fac.newArgs.address = fac.address

C13_Witness ==
    /\ fac.pc = "done"
    /\ fac.inAddress = "https://storage.googleapis.com/b"
    /\ fac.address = "storage.googleapis.com"
    /\ fac.opts.Secure = FALSE

\* C14: construction is all-or-nothing.  NewWrapHTTPTransport answers with
\* an instance or with an error, never both and never neither; when it
\* answers with an error NewMinioClient returns an error and no client,
\* minio.New is not called, and the options hold the transport and the
\* credentials the caller gave.
C14_ConstructionAllOrNothing ==
    (fac.pc = "done" /\ fac.wrap # Nil) =>
        /\ (fac.wrap.err = Nil) # (fac.wrap.transport = Nil)
        /\ fac.wrap.err # Nil =>
              /\ fac.client = Nil
              /\ fac.err # Nil
              /\ fac.err.cause = fac.wrap.err
              /\ fac.newArgs = Nil
              /\ fac.opts.Transport = TransportGiven
              /\ fac.opts.Creds = Nil

C14_Witness ==
    /\ fac.pc = "done"
    /\ fac.wrap # Nil
    /\ fac.wrap.err # Nil
    /\ fac.inOpts # Nil
    /\ fac.inOpts.Transport # Nil

\* call p executes its Store in this transition
Stores(p) == Len(storeLog'[p]) > Len(storeLog[p])

\* C15 as stated: the cache holds nothing only while no credential-source
\* call has succeeded, and otherwise a token some successful call returned.
C15_Original ==
    \/ currentToken = Nil /\ \A p \in Procs : ~FetchedOk(p)
    \/ currentToken # Nil /\ currentToken \in Acquired

\* C15: the Token Cache is a last-writer-wins cell.  It holds nothing
\* exactly as long as no Store has executed, and otherwise one whole token
\* that a successful credential-source call returned; only a Store changes
\* it; every Store leaves in it the token of the storing call, whatever it
\* held before; once it holds a token it never holds nothing again.
C15_LastWriterWins ==
    [][ /\ currentToken' # currentToken => \E p \in Procs : Stores(p)
        /\ \A p \in Procs : Stores(p) =>
              /\ currentToken' = srcLog[p][1]
              /\ FetchedOk(p)
        /\ currentToken # Nil => currentToken' # Nil
        /\ currentToken' = Nil <=> \A p \in Procs : storeLog'[p] = << >>
        /\ currentToken' # Nil => currentToken' \in Acquired ]_vars

C15_Witness ==
    /\ storeLog[1] # << >>
    /\ storeLog[2] # << >>
    /\ storeLog[1] # storeLog[2]
    /\ currentToken = storeLog[1][1]
    /\ AllDone

\* no call stands between its successful Token() call and its Store
NoStorePending == \A p \in Procs : pc[p] # "store"

\* the calls the credential source answered with a token
Fetchers == {p \in Procs : FetchedOk(p)}

\* C16 as stated: with no Store pending the cache holds the token the
\* credential source returned last.
C16_Original ==
    (NoStorePending /\ lastIssued # Nil) => currentToken = lastIssued

\* C16: with no Store pending and a token acquired, the cache holds a token
\* the credential source returned, the one whose Store executed last.  It is
\* the token returned last whenever a single call acquired one; when
\* several calls acquired tokens it may be one acquired earlier.
C16_HoldsAnAcquiredToken ==
    (NoStorePending /\ lastIssued # Nil) =>
        /\ currentToken \in Acquired
        /\ \A p \in Fetchers : storeLog[p] = <<srcLog[p][1]>>
        /\ Cardinality(Fetchers) = 1 => currentToken = lastIssued
        /\ currentToken # lastIssued =>
              \E p \in Fetchers : \E q \in Fetchers \ {p} :
                  currentToken = srcLog[p][1] /\ lastIssued = srcLog[q][1]

C16_Witness ==
    /\ NoStorePending
    /\ lastIssued # Nil
    /\ currentToken # lastIssued
    /\ Cardinality(Fetchers) = 2
    /\ AllDone

\* call p invokes tokenSrc.Token() in this transition
Fetches(p) == Len(srcLog'[p]) > Len(srcLog[p])

\* C17: refreshes are neither single-flight nor serialized.  A call whose
\* load found no valid token invokes the credential source in its next step
\* whatever the other calls do and whatever the cache holds by then (the
\* cache is not read again), and it invokes it once: no call ever has more
\* than one credential-source call to its name, so N calls make at most N.
C17_NoSingleFlight ==
    [][ \A p \in Procs :
          /\ Len(srcLog'[p]) <= 1
          /\ (pc[p] = "fetch" /\ pc'[p] # "fetch") => Fetches(p)
          /\ Fetches(p) =>
                /\ pc[p] = "fetch"
                /\ srcLog[p] = << >>
                /\ ~Valid(cur[p], now)
          /\ pc[p] = "fetch" => ENABLED Run(p) ]_vars

\* call 1 loaded an empty cache; call 2 has since fetched and stored a
\* token that is valid now; call 1 stands before its own fetch
C17_Witness ==
    /\ pc[1] = "fetch"
    /\ cur[1] = Nil
    /\ FetchedOk(2)
    /\ storeLog[2] # << >>
    /\ currentToken = srcLog[2][1]
    /\ Valid(currentToken, now)

\* call p is inside RoundTrip
Running(p) == pc[p] \notin {"idle", "done"}

\* C18: a call inside RoundTrip can always take its next step, whatever the
\* other calls are doing (none waits for another, no state is a deadlock
\* for it), and under fair scheduling every call that entered RoundTrip
\* returns, with the token error or with what the delegate answered.
C18_EverySendCompletes ==
    /\ [](\A p \in Procs : Running(p) => ENABLED Step(p))
    /\ \A p \in Procs :
          Running(p) ~> (pc[p] = "done" /\ result[p] \in {"errToken"} \cup BackendResults)

C18_Witness ==
    /\ pc[1] = "done" /\ result[1] = "errToken"
    /\ pc[2] = "done" /\ result[2] = "response"
    /\ cur[2] = Nil

\* call p returns the token error in this transition
FailsNow(p) == result'[p] = "errToken" /\ result[p] # "errToken"

\* the header map with its X-Amz- names renamed, the value of the name
\* processed last kept where two names meet
Renamed(h) == {RenameLoop(h, order) : order \in Orders(DOMAIN h)}

\* C19: the step in which a call fails at token acquisition leaves the
\* Token Cache as it was and stores nothing; the request of the failed call
\* has the Authorization it was entered with (none set by this call), has no
\* "X-Amz-" name left and is the renamed header map, not the original one;
\* its target and body are as before; nothing was handed to the delegate.
C19_FailedSendState ==
    [][ \A p \in Procs : FailsNow(p) =>
          /\ currentToken' = currentToken
          /\ storeLog'[p] = << >>
          /\ newToken'[p] = Nil
          /\ Auth(req'[p]) = Auth(orig'[p])
          /\ \A k \in DOMAIN req'[p] : ~IsAmz(k)
          /\ req'[p] \in Renamed(orig'[p])
          /\ \A k \in DOMAIN orig'[p] : IsAmz(k) => GoogName(k) \in DOMAIN req'[p]
          /\ reqRest'[p] = origRest'[p]
          /\ backend'[p] = << >> ]_vars

C19_Witness ==
    /\ pc[1] = "done"
    /\ result[1] = "errToken"
    /\ "X-Amz-Date" \in DOMAIN orig[1]
    /\ "X-Goog-Date" \in DOMAIN req[1]
    /\ req[1] # orig[1]
    /\ currentToken # Nil

====
